---- MODULE Spec2Model ----
(***************************************************************************)
(* SmartMapSearch: the query-interpretation-and-resolution pipeline.       *)
(*                                                                         *)
(*   src/src/services/mistral.ts  validateOsmTag, mapToOsmTags,            *)
(*                                ParsedQuerySchema, buildNominatimQuery,  *)
(*                                searchLocations, parseSearchQuery        *)
(*   src/src/App.tsx              handleSearch, clearSearch,               *)
(*                                calculateDistance, "Show more results"   *)
(*   src/unnamed/part_000         SearchBar: handleSubmit, onresult        *)
(*                                                                         *)
(*   src/src/services/openai.ts   parseSearchQuery (OpenAI-backed)         *)
(*                                                                         *)
(* Every await of the code is a point where an invocation is suspended     *)
(* (pc) and the answer of the outside world (geolocation, language model,  *)
(* tag registry, geocoder) is chosen nondeterministically.  Code that runs *)
(* between two awaits runs inside one action.  Spec, SpecRank and SpecLive *)
(* follow one handleSearch invocation at a time through every await of the *)
(* pipeline; SpecOverlap follows overlapping invocations (calls), with     *)
(* searchLocations as one await; SpecOpenAI applies the parseSearchQuery   *)
(* of openai.ts.                                                           *)
(***************************************************************************)
EXTENDS Integers, Sequences, FiniteSets, TLC

(***************************************************************************)
(* Bounds of the model.                                                    *)
(***************************************************************************)
\* longest candidate list the geocoder answers with in SpecRank
MaxResults == 6
\* longest candidate list the geocoder answers with in Spec
MaxShort == 2
\* longest osmTags array in a language-model reply
MaxTags == 2
\* handleSearch invocations that may be in flight together in SpecOverlap
MaxCalls == 2

(***************************************************************************)
(* JavaScript values.  A value carries its runtime type in field t.        *)
(***************************************************************************)
JUndef == [t |-> "undefined"]
JNull == [t |-> "null"]
JStr(s) == [t |-> "string", v |-> s]
JNum(n) == [t |-> "number", v |-> n]
JObj(o) == [t |-> "object", v |-> o]
JArr(s) == [t |-> "array", v |-> s]

Min(a, b) == IF a <= b THEN a ELSE b

(***************************************************************************)
(* Query text: a sequence of words.  toLowerCase() maps each word to its   *)
(* lower-case form; includes('near me') holds when the lower-cased text    *)
(* has the word "near" directly followed by "me", includes('nearby') when  *)
(* it has the word "nearby".                                               *)
(***************************************************************************)
Queries == { <<"cafe">>, <<"cafe", "Near", "me">>, <<"pizza", "nearby">> }

ToLowerCase(w) == IF w = "Near" THEN "near" ELSE w

hasLocationQuery(q) ==
    \/ \E i \in 1..(Len(q) - 1) :
          ToLowerCase(q[i]) = "near" /\ ToLowerCase(q[i + 1]) = "me"
    \/ \E i \in 1..Len(q) : ToLowerCase(q[i]) = "nearby"

(***************************************************************************)
(* Positions (degrees) and places.                                         *)
(***************************************************************************)
Positions == { [latitude |-> 0, longitude |-> 0] }

Places == { [lat |-> 0, lon |-> 30, display_name |-> "A"],
            [lat |-> 0, lon |-> 60, display_name |-> "B"] }

RECURSIVE SeqsUpTo(_, _)
SeqsUpTo(S, n) ==
    IF n = 0 THEN { <<>> }
    ELSE LET shorter == SeqsUpTo(S, n - 1)
         IN  shorter \cup { Append(s, e) : s \in shorter, e \in S }

(***************************************************************************)
(* Tags and the tag registry.                                              *)
(***************************************************************************)
Tags == { [key |-> JStr("amenity"), value |-> JStr("cafe")],
          [key |-> JStr("cuisine"), value |-> JStr("italian")] }

RegistryValues == {"cafe", "italian"}

\* answers of the tag registry: the fetch or json() throws, the body has
\* no data list, or the body lists some values
RegistryAnswers ==
    { [kind |-> "throws"], [kind |-> "nodata"] } \cup
    { [kind |-> "data", values |-> vs] : vs \in SUBSET RegistryValues }

\* validateOsmTag, once the registry has answered: the value of the
\* expression the function returns ("undefined" when data.data is missing)
validateOsmTag(tag, answer) ==
    IF answer.kind = "throws" THEN "false"
    ELSE IF answer.kind = "nodata" THEN "undefined"
    ELSE IF \E e \in answer.values : JStr(e) = tag.value THEN "true"
    ELSE "false"

Truthy(b) == b = "true"

(***************************************************************************)
(* ParsedQuerySchema (zod).  An object to validate has the fields          *)
(* searchTerm, location and osmTags; location, when an object, has type,   *)
(* coordinates and radius.  parse() rejects or returns the object with the *)
(* keys the schema does not name (location.type) stripped.                 *)
(***************************************************************************)
CoordinatesOK(c) ==
    \/ c.t = "undefined"
    \/ /\ c.t = "object"
       /\ c.v.latitude.t = "number"
       /\ c.v.longitude.t = "number"

RadiusOK(r) == r.t \in {"undefined", "number"}

LocationOK(l) ==
    \/ l.t = "undefined"
    \/ /\ l.t = "object"
       /\ CoordinatesOK(l.v.coordinates)
       /\ RadiusOK(l.v.radius)

OsmTagsOK(a) ==
    \/ a.t = "undefined"
    \/ /\ a.t = "array"
       /\ \A i \in 1..Len(a.v) :
             a.v[i].key.t = "string" /\ a.v[i].value.t = "string"

SchemaAccepts(o) ==
    /\ o.searchTerm.t = "string"
    /\ LocationOK(o.location)
    /\ OsmTagsOK(o.osmTags)

StripLocation(l) ==
    IF l.t = "object"
    THEN JObj([type |-> JUndef, coordinates |-> l.v.coordinates,
               radius |-> l.v.radius])
    ELSE l

ParsedQuerySchemaParse(o) ==
    IF SchemaAccepts(o)
    THEN [status |-> "returned",
          data |-> [searchTerm |-> o.searchTerm,
                    location |-> StripLocation(o.location),
                    osmTags |-> o.osmTags]]
    ELSE [status |-> "thrown"]

(***************************************************************************)
(* Property access: o.f is undefined when the object has no field f, and   *)
(* x?.f is undefined when x is undefined or null.                          *)
(***************************************************************************)
Field(o, f) == IF f \in DOMAIN o THEN o[f] ELSE JUndef

OptField(x, f) ==
    IF x.t \in {"undefined", "null"} THEN JUndef
    ELSE IF x.t = "object" THEN Field(x.v, f)
    ELSE JUndef

\* truthiness of a value used as a condition or as the left side of ||
IsTruthy(x) ==
    /\ x.t \notin {"undefined", "null"}
    /\ (x.t = "number" => x.v # 0)

(***************************************************************************)
(* buildNominatimQuery.  The q parameter is the search term followed by    *)
(* the bracketed clauses pushed on searchTerms; the viewbox is kept in     *)
(* hundredths of a degree, so that radius * 0.02 degrees is 2 * radius.    *)
(***************************************************************************)
DefaultRadius == 5
FullLimit == 10
PlainLimit == 10
LastResortLimit == 3

TagClauses(parsedQuery) ==
    LET specific == OptField(Field(parsedQuery, "osm_tags"), "specific")
    IN  IF IsTruthy(specific)
        THEN << [key |-> OptField(specific, "key"),
                 value |-> OptField(specific, "value")] >>
        ELSE << >>

ViewboxRadius(location) ==
    LET given == OptField(location.v.radius, "value")
    IN  IF IsTruthy(given) THEN given.v ELSE DefaultRadius

Viewbox(location) ==
    LET latitude == location.v.coordinates.v.latitude.v
        longitude == location.v.coordinates.v.longitude.v
        viewboxSize == ViewboxRadius(location) * 2
    IN  JObj([left |-> longitude * 100 - viewboxSize,
              top |-> latitude * 100 + viewboxSize,
              right |-> longitude * 100 + viewboxSize,
              bottom |-> latitude * 100 - viewboxSize])

HasCoordinates(parsedQuery) ==
    IsTruthy(OptField(parsedQuery.location, "coordinates"))

buildNominatimQuery(parsedQuery) ==
    [q |-> [term |-> parsedQuery.searchTerm.v,
            clauses |-> TagClauses(parsedQuery)],
     viewbox |-> IF HasCoordinates(parsedQuery)
                 THEN Viewbox(parsedQuery.location) ELSE JUndef,
     bounded |-> IF HasCoordinates(parsedQuery) THEN JStr("1") ELSE JUndef,
     format |-> "json",
     limit |-> FullLimit]

\* the plain-term requests of searchLocations: q is the raw query text
PlainRequest(query, limit) ==
    [q |-> [term |-> query, clauses |-> << >>],
     viewbox |-> JUndef, bounded |-> JUndef,
     format |-> "json", limit |-> limit]

(***************************************************************************)
(* calculateDistance: the haversine formula in fixed point (1/10000), on   *)
(* coordinates that are multiples of 30 degrees.  SinHalfSq(d) is          *)
(* sin^2(d/2); the central angle c is read back from the same table, and   *)
(* the result is R * c in whole kilometres.                                *)
(***************************************************************************)
EarthRadius == 6371

Abs(x) == IF x < 0 THEN -x ELSE x

Angles == {0, 30, 60, 90, 120, 150, 180}

SinHalfSq(d) ==
    CASE Abs(d) = 0 -> 0
      [] Abs(d) = 30 -> 670
      [] Abs(d) = 60 -> 2500
      [] Abs(d) = 90 -> 5000
      [] Abs(d) = 120 -> 7500
      [] Abs(d) = 150 -> 9330
      [] OTHER -> 10000

Cos(d) ==
    CASE Abs(d) = 0 -> 10000
      [] Abs(d) = 30 -> 8660
      [] Abs(d) = 60 -> 5000
      [] OTHER -> 0

\* 2 * atan2(sqrt(a), sqrt(1 - a)) in degrees
CentralAngle(a) ==
    CHOOSE d \in Angles :
        /\ SinHalfSq(d) <= a
        /\ \A e \in Angles : SinHalfSq(e) <= a => e <= d

calculateDistance(lat1, lon1, lat2, lon2) ==
    LET dLat == lat2 - lat1
        dLon == lon2 - lon1
        a == SinHalfSq(dLat)
             + (((Cos(lat1) * Cos(lat2)) \div 10000) * SinHalfSq(dLon))
               \div 10000
    \* R * c, with c in radians: pi / 180 taken as 355 / (113 * 180)
    IN  (EarthRadius * CentralAngle(a) * 355) \div 20340

(***************************************************************************)
(* results.sort(compare): a stable sort by the sign of distA - distB.      *)
(***************************************************************************)
DistanceFrom(userPosition, loc) ==
    calculateDistance(userPosition.latitude, userPosition.longitude,
                      loc.lat, loc.lon)

\* the comparator with its operands exchanged: distB - distA
CompareReversed(userPosition, a, b) ==
    DistanceFrom(userPosition, b) - DistanceFrom(userPosition, a)

Compare(userPosition, a, b) ==
    DistanceFrom(userPosition, a) - DistanceFrom(userPosition, b)

RECURSIVE InsertSorted(_, _, _)
InsertSorted(userPosition, sorted, x) ==
    IF sorted = << >> THEN << x >>
    ELSE IF Compare(userPosition, sorted[Len(sorted)], x) <= 0
         THEN Append(sorted, x)
         ELSE Append(InsertSorted(userPosition,
                                  SubSeq(sorted, 1, Len(sorted) - 1), x),
                     sorted[Len(sorted)])

RECURSIVE SortByDistance(_, _)
SortByDistance(userPosition, results) ==
    IF results = << >> THEN << >>
    ELSE InsertSorted(userPosition,
                      SortByDistance(userPosition,
                                     SubSeq(results, 1, Len(results) - 1)),
                      results[Len(results)])

DefaultPage == 5
ExpandedPage == 10

\* results.slice(0, expandedResults ? 10 : 5)
Slice(results, expanded) ==
    SubSeq(results, 1,
           Min(Len(results), IF expanded THEN ExpandedPage ELSE DefaultPage))

(***************************************************************************)
(* Answers of the outside world.                                           *)
(***************************************************************************)
\* navigator.geolocation.getCurrentPosition: success or error callback
GeoOutcomes ==
    { [kind |-> "error"] } \cup
    { [kind |-> "position", coords |-> p] : p \in Positions }

ModelTerms == { JStr(<<"coffee">>) }

ModelCoordinates ==
    { JUndef, JObj([latitude |-> JNum(30), longitude |-> JNum(30)]) }

ModelLocations ==
    { JUndef } \cup
    { JObj([type |-> ty, coordinates |-> c, radius |-> r]) :
        ty \in { JUndef, JStr("current") },
        c \in ModelCoordinates,
        r \in { JUndef, JNum(10) } }

ModelTagLists ==
    { JUndef } \cup { JArr(s) : s \in SeqsUpTo(Tags, MaxTags) }

\* the query texts SpecRank draws from
FewQueries == { <<"cafe">>, <<"cafe", "Near", "me">> }

ReplyObject(st, l, tg) ==
    [kind |-> "json",
     value |-> JObj([searchTerm |-> st, location |-> l, osmTags |-> tg])]

\* mistralClient.chat in parseSearchQuery: the call throws, the content is
\* not JSON, the content is the JSON text null, a JSON object without a
\* searchTerm, or a JSON object with one: with any location and no tags,
\* with any tag list and no location, or with the current location and
\* one tag
ModelReplies ==
    { [kind |-> "throws"], [kind |-> "text"],
      [kind |-> "json", value |-> JNull],
      ReplyObject(JUndef, JUndef, JUndef) } \cup
    { ReplyObject(st, l, JUndef) : st \in ModelTerms, l \in ModelLocations }
    \cup
    { ReplyObject(st, JUndef, tg) : st \in ModelTerms, tg \in ModelTagLists }
    \cup
    { ReplyObject(st, JObj([type |-> JStr("current"),
                            coordinates |-> JUndef, radius |-> JUndef]),
                  JArr(<< tag >>)) : st \in ModelTerms, tag \in Tags }

\* the replies SpecRank draws from
FewReplies ==
    { [kind |-> "throws"] } \cup
    { ReplyObject(JStr(<<"coffee">>), l, JUndef) :
        l \in { JUndef,
                JObj([type |-> JStr("current"), coordinates |-> JUndef,
                      radius |-> JUndef]) } }

\* mistralClient.chat in mapToOsmTags
MappingReplies ==
    { [kind |-> "throws"], [kind |-> "text"],
      [kind |-> "json", value |-> JNull],
      [kind |-> "json", value |-> JObj([key |-> JUndef, value |-> JUndef])] }
    \cup { [kind |-> "json", value |-> JObj(tag)] : tag \in Tags }

\* the geocoder: transport error, a non-OK answer with an HTML or a JSON
\* error body, or an OK answer with a list of at most limit places
CandidateLists ==
    [n \in 0..(IF MaxResults > MaxShort THEN MaxResults ELSE MaxShort) |->
        SeqsUpTo(Places, n)]

GeocoderAnswers(limit, maxLen) ==
    { [kind |-> "neterr"],
      [kind |-> "http", ok |-> FALSE, body |-> [t |-> "html"]],
      [kind |-> "http", ok |-> FALSE, body |-> [t |-> "errobj"]] } \cup
    { [kind |-> "http", ok |-> TRUE, body |-> JArr(l)] :
        l \in CandidateLists[Min(limit, maxLen)] }

(***************************************************************************)
(* State.                                                                  *)
(***************************************************************************)
VARIABLES
    \* App state (useState)
    locations, selectedLocation, isLoading, error, expandedResults,
    searchContext, searchQuery,
    \* the handleSearch invocation: where it is suspended, its argument,
    \* its local userPosition and the expandedResults its closure captured
    pc, query, userPosition, closureExpanded,
    startedBy,     \* the control that called handleSearch
    \* searchLocations / parseSearchQuery / mapToOsmTags of the invocation
    analysis,      \* answer of the model call of parseSearchQuery
    parsedQuery,   \* how parseSearchQuery settled, and with what
    mapped,        \* mapToOsmTags: its JSON result and its return value
    validated,     \* the validateOsmTag calls made: tag, registry answer
                   \* and verdict
    fetchLog,      \* the geocoding requests issued, with their answers
    searchResult,  \* how searchLocations settled, and with what
    \* overlapping handleSearch invocations (SpecOverlap)
    calls,         \* the invocations in flight, by slot
    latest,        \* the invocation started last, and what it produced
    \* the parseSearchQuery of openai.ts (SpecOpenAI)
    openaiCall     \* its arguments, the completion and what it returned

appVars == << locations, selectedLocation, isLoading, error,
              expandedResults, searchContext, searchQuery >>
invVars == << pc, query, userPosition, closureExpanded, startedBy >>
pipeVars == << analysis, parsedQuery, mapped, validated, fetchLog,
               searchResult >>
sideVars == << calls, latest, openaiCall >>
vars == << appVars, invVars, pipeVars, sideVars >>

\* a slot of calls with no invocation in flight
FreeCall == [pc |-> "free", query |-> << >>, userPosition |-> JNull,
             closureExpanded |-> FALSE]

NoError == "null"
NoLocationsMsg == "No locations found. Try a different search term."
FailedMsg == "Failed to search locations. Please try again."

Pending == [kind |-> "pending"]

Init ==
    /\ locations = << >>
    /\ selectedLocation = JNull
    /\ isLoading = FALSE
    /\ error = NoError
    /\ expandedResults = FALSE
    /\ searchContext = JNull
    /\ searchQuery = << >>
    /\ pc = "idle"
    /\ query = << >>
    /\ userPosition = JNull
    /\ closureExpanded = FALSE
    /\ startedBy = "none"
    /\ analysis = [kind |-> "none"]
    /\ parsedQuery = [status |-> "none"]
    /\ mapped = [status |-> "none"]
    /\ validated = {}
    /\ fetchLog = << >>
    /\ searchResult = [status |-> "none"]
    /\ calls = [c \in 1..MaxCalls |-> FreeCall]
    /\ latest = [slot |-> 0, output |-> [status |-> "none"]]
    /\ openaiCall = [status |-> "idle"]

(***************************************************************************)
(* parseSearchQuery (mistral.ts).                                          *)
(***************************************************************************)
\* userPosition ? { latitude, longitude } : undefined
UserLocation(position) ==
    IF IsTruthy(position)
    THEN JObj([latitude |-> JNum(position.v.latitude),
               longitude |-> JNum(position.v.longitude)])
    ELSE JUndef

InjectedRadius == JObj([value |-> JNum(DefaultRadius),
                        unit |-> JStr("kilometers")])

\* the try block after the model call has answered: JSON.parse, the
\* current-location injection, ParsedQuerySchema.parse
TryParse(reply, userLocation) ==
    IF reply.kind # "json" THEN [status |-> "thrown"]
    ELSE IF reply.value.t = "null" THEN [status |-> "thrown"]
    ELSE LET parsed == reply.value.v
             injected ==
                 IF /\ OptField(parsed.location, "type") = JStr("current")
                    /\ IsTruthy(userLocation)
                 THEN [parsed EXCEPT !.location =
                          JObj([type |-> JStr("current"),
                                coordinates |-> userLocation,
                                radius |-> InjectedRadius])]
                 ELSE parsed
         IN  ParsedQuerySchemaParse(injected)

\* the catch block once mapToOsmTags has returned mappedTag
FallbackParse(rawQuery, userLocation, mappedTag) ==
    ParsedQuerySchemaParse(
        [searchTerm |-> JStr(rawQuery),
         location |-> IF IsTruthy(userLocation)
                      THEN JObj([type |-> JUndef,
                                 coordinates |-> userLocation,
                                 radius |-> InjectedRadius])
                      ELSE JUndef,
         osmTags |-> mappedTag])

(***************************************************************************)
(* Pieces of handleSearch and searchLocations shared by the actions.       *)
(***************************************************************************)
Request(tier, request) ==
    [tier |-> tier, request |-> request, answer |-> Pending]

Answered(answer) == [fetchLog EXCEPT ![Len(fetchLog)].answer = answer]

\* handleSearch up to its first await.  App.tsx does not import
\* parseSearchQuery: the call in the inner try raises a ReferenceError,
\* the inner catch logs it, and searchContext stays null.
HandleSearch(q, capturedExpanded, control) ==
    /\ startedBy' = control
    /\ searchQuery' = q
    /\ isLoading' = TRUE
    /\ error' = NoError
    /\ selectedLocation' = JNull
    /\ expandedResults' = FALSE
    /\ searchContext' = JNull
    /\ query' = q
    /\ userPosition' = JNull
    /\ closureExpanded' = capturedExpanded
    /\ analysis' = [kind |-> "none"]
    /\ parsedQuery' = [status |-> "none"]
    /\ mapped' = [status |-> "none"]
    /\ validated' = {}
    /\ fetchLog' = << >>
    /\ searchResult' = [status |-> "none"]
    /\ pc' = IF hasLocationQuery(q) THEN "geo1" ELSE "chat"
    /\ UNCHANGED locations

\* the outer catch and finally of handleSearch
Failed ==
    /\ error' = FailedMsg
    /\ isLoading' = FALSE
    /\ pc' = "idle"
    /\ UNCHANGED << locations, selectedLocation, expandedResults,
                    searchContext, searchQuery, query, userPosition,
                    closureExpanded, startedBy >>

\* searchLocations once parseSearchQuery has settled: the tier-1 request,
\* or the catch block with the last-resort request
AfterParse(settled) ==
    /\ parsedQuery' = settled
    /\ IF settled.status = "returned"
       THEN /\ fetchLog' = Append(fetchLog,
                   Request(1, buildNominatimQuery(settled.data)))
            /\ pc' = "tier1"
       ELSE /\ fetchLog' = Append(fetchLog,
                   Request(3, PlainRequest(query, LastResortLimit)))
            /\ pc' = "tier3"
    /\ UNCHANGED << appVars, query, userPosition, closureExpanded,
                    startedBy, searchResult >>

\* the catch block of searchLocations, entered from a geocoding request
CatchToLastResort(answer) ==
    /\ fetchLog' = Append(Answered(answer),
                          Request(3, PlainRequest(query, LastResortLimit)))
    /\ pc' = "tier3"
    /\ UNCHANGED << appVars, query, userPosition, closureExpanded,
                    startedBy, analysis, parsedQuery, mapped, validated,
                    searchResult >>

Rank(position, results) ==
    IF IsTruthy(position) THEN SortByDistance(position.v, results)
    ELSE results

\* searchLocations returns body; handleSearch processes and displays it
Display(answer, body) ==
    /\ fetchLog' = Answered(answer)
    /\ searchResult' = [status |-> "returned", value |-> body]
    /\ isLoading' = FALSE
    /\ pc' = "idle"
    /\ IF body.t # "array"
       THEN error' = FailedMsg /\ UNCHANGED locations
       ELSE IF Len(body.v) = 0
            THEN error' = NoLocationsMsg /\ UNCHANGED locations
            ELSE /\ locations' = Slice(Rank(userPosition, body.v),
                                       closureExpanded)
                 /\ UNCHANGED error
    /\ UNCHANGED << selectedLocation, expandedResults, searchContext,
                    searchQuery, query, userPosition, closureExpanded,
                    startedBy, analysis, parsedQuery, mapped, validated >>

(***************************************************************************)
(* Actions.                                                                *)
(***************************************************************************)
\* SearchBar.handleSubmit: the submit button is disabled while isLoading
Submit(q) ==
    /\ pc = "idle"
    /\ ~isLoading
    /\ Len(q) > 0
    /\ HandleSearch(q, expandedResults, "submit")
    /\ UNCHANGED sideVars

\* SearchBar recognition.onresult
VoiceResult(q) ==
    /\ pc = "idle"
    /\ HandleSearch(q, expandedResults, "voice")
    /\ UNCHANGED sideVars

\* "Show more results": setExpandedResults(true); handleSearch(searchQuery).
\* The handleSearch called is the closure of the render that shows the
\* button, and its setExpandedResults(false) is the last update queued.
ShowMore ==
    /\ pc = "idle"
    /\ Len(locations) = 5
    /\ ~expandedResults
    /\ HandleSearch(searchQuery, expandedResults, "showmore")
    /\ UNCHANGED sideVars

clearSearch ==
    /\ locations' = << >>
    /\ selectedLocation' = JNull
    /\ error' = NoError
    /\ searchContext' = JNull
    /\ searchQuery' = << >>
    /\ expandedResults' = FALSE
    /\ UNCHANGED << isLoading, invVars, pipeVars >>
    /\ UNCHANGED sideVars

\* first getCurrentPosition (timeout 5000) answers
GeoResult1(o) ==
    /\ pc = "geo1"
    /\ IF o.kind = "position"
       THEN /\ userPosition' = JObj(o.coords)
            /\ pc' = IF hasLocationQuery(query) THEN "geo2" ELSE "chat"
            /\ UNCHANGED << appVars, query, closureExpanded, startedBy >>
       ELSE Failed
    /\ UNCHANGED pipeVars
    /\ UNCHANGED sideVars

\* second getCurrentPosition answers
GeoResult2(o) ==
    /\ pc = "geo2"
    /\ IF o.kind = "position"
       THEN /\ userPosition' = JObj(o.coords)
            /\ pc' = "chat"
            /\ UNCHANGED << appVars, query, closureExpanded, startedBy >>
       ELSE Failed
    /\ UNCHANGED pipeVars
    /\ UNCHANGED sideVars

\* the model call of parseSearchQuery answers
ChatResult(reply) ==
    /\ pc = "chat"
    /\ analysis' = reply
    /\ LET settled == TryParse(reply, UserLocation(userPosition))
       IN  IF settled.status = "returned"
           THEN AfterParse(settled) /\ UNCHANGED << mapped, validated >>
           ELSE /\ pc' = "mapchat"
                /\ UNCHANGED << appVars, query, userPosition,
                                closureExpanded, startedBy, parsedQuery,
                                mapped, validated, fetchLog, searchResult >>
    /\ UNCHANGED sideVars

\* the model call of mapToOsmTags answers
MapChatResult(reply) ==
    /\ pc = "mapchat"
    /\ IF reply.kind = "json" /\ reply.value.t = "object"
       THEN /\ mapped' = [status |-> "validating", result |-> reply.value]
            /\ pc' = "taginfo"
            /\ UNCHANGED << appVars, query, userPosition, closureExpanded,
                            startedBy, parsedQuery, validated, fetchLog,
                            searchResult >>
       ELSE /\ mapped' = [status |-> "returned", value |-> JNull]
            /\ AfterParse(FallbackParse(query, UserLocation(userPosition),
                                        JNull))
            /\ UNCHANGED validated
    /\ UNCHANGED analysis
    /\ UNCHANGED sideVars

\* the tag registry answers validateOsmTag
TagInfoResult(answer) ==
    /\ pc = "taginfo"
    /\ LET tag == mapped.result.v
           verdict == validateOsmTag(tag, answer)
           mappedTag == IF Truthy(verdict) THEN mapped.result ELSE JNull
       IN  /\ validated' = validated \cup
                 { [tag |-> tag, answer |-> answer, verdict |-> verdict] }
           /\ mapped' = [status |-> "returned", value |-> mappedTag]
           /\ AfterParse(FallbackParse(query, UserLocation(userPosition),
                                       mappedTag))
    /\ UNCHANGED analysis
    /\ UNCHANGED sideVars

\* Tier1Response treating an empty answer as an error
Tier1ResponseEmptyThrows(answer) ==
    /\ pc = "tier1"
    /\ IF \/ answer.kind = "neterr" \/ ~answer.ok \/ answer.body.t = "html"
          \/ Len(answer.body.v) = 0
       THEN CatchToLastResort(answer)
       ELSE Display(answer, answer.body)
    /\ UNCHANGED sideVars

\* the tier-1 request answers
Tier1Response(answer) ==
    /\ pc = "tier1"
    /\ IF answer.kind = "neterr" \/ ~answer.ok \/ answer.body.t = "html"
       THEN CatchToLastResort(answer)
       ELSE IF answer.body.t = "array" /\ Len(answer.body.v) = 0
            THEN /\ fetchLog' = Append(Answered(answer),
                        Request(2, PlainRequest(query, PlainLimit)))
                 /\ pc' = "tier2"
                 /\ UNCHANGED << appVars, query, userPosition,
                                 closureExpanded, startedBy, analysis,
                                 parsedQuery, mapped, validated,
                                 searchResult >>
            ELSE Display(answer, answer.body)
    /\ UNCHANGED sideVars

\* Tier2Response without the assignment to results
Tier2ResponseKeepsEmpty(answer) ==
    /\ pc = "tier2"
    /\ IF answer.kind = "neterr" \/ answer.body.t = "html"
       THEN CatchToLastResort(answer)
       ELSE Display(answer, fetchLog[Len(fetchLog) - 1].answer.body)
    /\ UNCHANGED sideVars

\* the plain-term request (limit 10) answers; response.ok is not tested
Tier2Response(answer) ==
    /\ pc = "tier2"
    /\ IF answer.kind = "neterr" \/ answer.body.t = "html"
       THEN CatchToLastResort(answer)
       ELSE Display(answer, answer.body)
    /\ UNCHANGED sideVars

\* the last-resort request (limit 3) answers, outside any try block
Tier3Response(answer) ==
    /\ pc = "tier3"
    /\ IF answer.kind = "neterr" \/ answer.body.t = "html"
       THEN /\ fetchLog' = Answered(answer)
            /\ searchResult' = [status |-> "thrown"]
            /\ Failed
            /\ UNCHANGED << analysis, parsedQuery, mapped, validated >>
       ELSE Display(answer, answer.body)
    /\ UNCHANGED sideVars

NextWith(queries, replies, maxLen) ==
    \/ \E q \in queries : Submit(q)
    \/ \E q \in queries : VoiceResult(q)
    \/ clearSearch
    \/ \E o \in GeoOutcomes : GeoResult1(o)
    \/ \E o \in GeoOutcomes : GeoResult2(o)
    \/ \E r \in replies : ChatResult(r)
    \/ \E r \in MappingReplies : MapChatResult(r)
    \/ \E a \in RegistryAnswers : TagInfoResult(a)
    \/ \E a \in GeocoderAnswers(FullLimit, maxLen) : Tier1Response(a)
    \/ \E a \in GeocoderAnswers(PlainLimit, maxLen) : Tier2Response(a)
    \/ \E a \in GeocoderAnswers(LastResortLimit, maxLen) : Tier3Response(a)

\* every language-model reply, candidate lists shorter than a page: the
\* "Show more results" button, shown for a list of 5, is never rendered
Next == NextWith(Queries, ModelReplies, MaxShort)
Spec == Init /\ [][Next]_vars

\* few queries and language-model replies, candidate lists longer than a page
NextRank ==
    \/ NextWith(FewQueries, FewReplies, MaxResults)
    \/ ShowMore
SpecRank == Init /\ [][NextRank]_vars

(***************************************************************************)
(* Properties.                                                             *)
(***************************************************************************)
\* parseSearchQuery has settled (returned or thrown) in this invocation
ParseSettled == parsedQuery.status # "none"

\* the model call threw, its reply is not JSON, or the reply as received
\* does not satisfy ParsedQuerySchema
ModelCallFailed ==
    \/ analysis.kind \in {"throws", "text"}
    \/ /\ analysis.kind = "json"
       /\ \/ analysis.value.t # "object"
          \/ ~SchemaAccepts(analysis.value.v)

\* C1: whenever the language-model call throws, or its reply is not
\* parseable JSON, or the parsed reply fails schema validation,
\* parseSearchQuery does not throw but returns an intent whose searchTerm
\* is the raw query text, whatever the tag mapping did and with or
\* without a position.
C1_FallbackIntent ==
    (ParseSettled /\ ModelCallFailed) =>
        /\ parsedQuery.status = "returned"
        /\ parsedQuery.data.searchTerm = JStr(query)

\* C2: searchLocations never throws to its caller, and handleSearch never
\* reaches 'Failed to search locations' once the pipeline has started
\* issuing geocoding requests.
C2_NeverThrows ==
    /\ searchResult.status # "thrown"
    /\ (error = FailedMsg => fetchLog = << >>)

IsEmptyList(answer) ==
    /\ answer.kind = "http"
    /\ answer.ok
    /\ answer.body.t = "array"
    /\ Len(answer.body.v) = 0

IsNonEmptyList(answer) ==
    /\ answer.kind = "http"
    /\ answer.body.t = "array"
    /\ Len(answer.body.v) > 0

\* C3: whenever the tier-1 request succeeds with zero results, the next
\* request is the plain-term request built from the raw text (limit 10, no
\* tag clause, no viewbox), and when that one answers a non-empty list,
\* searchLocations returns exactly that list.
C3_PlainTermFallback ==
    \A i \in 1..Len(fetchLog) :
        (fetchLog[i].tier = 1 /\ IsEmptyList(fetchLog[i].answer)) =>
            /\ i < Len(fetchLog)
            /\ fetchLog[i + 1].request = PlainRequest(query, PlainLimit)
            /\ IsNonEmptyList(fetchLog[i + 1].answer) =>
                  searchResult = [status |-> "returned",
                                  value |-> fetchLog[i + 1].answer.body]

C3_Witness ==
    /\ Len(fetchLog) = 2
    /\ fetchLog[1].tier = 1
    /\ IsEmptyList(fetchLog[1].answer)
    /\ IsNonEmptyList(fetchLog[2].answer)
    /\ searchResult.status = "returned"
    /\ locations = fetchLog[2].answer.body.v

\* the request raised an error: transport failure or non-OK status
RaisedError(answer) ==
    \/ answer.kind = "neterr"
    \/ answer.kind = "http" /\ ~answer.ok

C5_OneTagClause ==
    \A i \in 1..Len(fetchLog) :
        fetchLog[i].tier = 1 =>
            LET tags == parsedQuery.data.osmTags
                clauses == fetchLog[i].request.q.clauses
            IN  IF tags.t = "array" /\ Len(tags.v) > 0
                THEN clauses = << tags.v[1] >>
                ELSE clauses = << >>

\* C6: each element of the osmTags of an intent returned by
\* parseSearchQuery was submitted to validateOsmTag, which returned true.
C6_TagsValidated ==
    (parsedQuery.status = "returned"
        /\ parsedQuery.data.osmTags.t = "array") =>
        \A i \in 1..Len(parsedQuery.data.osmTags.v) :
            \E call \in validated :
                /\ call.tag = parsedQuery.data.osmTags.v[i]
                /\ call.verdict = "true"

\* C7: when the reply is schema-valid and declares location.type =
\* 'current', and a position was supplied, parseSearchQuery returns an
\* intent with the model's searchTerm, the supplied position as
\* location.coordinates, and radius 5 when the model gave none.
C7_CurrentLocationInjected ==
    (/\ ParseSettled
     /\ analysis.kind = "json"
     /\ analysis.value.t = "object"
     /\ SchemaAccepts(analysis.value.v)
     /\ OptField(analysis.value.v.location, "type") = JStr("current")
     /\ IsTruthy(userPosition)) =>
        /\ parsedQuery.status = "returned"
        /\ parsedQuery.data.searchTerm = analysis.value.v.searchTerm
        /\ parsedQuery.data.location.v.coordinates
              = UserLocation(userPosition)
        /\ parsedQuery.data.location.v.radius
              = IF analysis.value.v.location.v.radius.t = "undefined"
                THEN JNum(DefaultRadius)
                ELSE analysis.value.v.location.v.radius

\* C8: the synthesized query carries a viewbox and bounded=1 exactly when
\* the intent has coordinates; the viewbox is centred on them with
\* half-width 2 * radius hundredths of a degree, radius being the
\* intent's location.radius when set and 5 when unset.
C8_Viewbox ==
    \A i \in 1..Len(fetchLog) :
        fetchLog[i].tier = 1 =>
            LET location == parsedQuery.data.location
                request == fetchLog[i].request
                present == /\ location.t = "object"
                           /\ location.v.coordinates.t = "object"
                radius == IF location.v.radius.t = "number"
                          THEN location.v.radius.v ELSE DefaultRadius
                centre == location.v.coordinates.v
            IN  /\ (request.viewbox.t = "object") <=> present
                /\ (request.bounded = JStr("1")) <=> present
                /\ present =>
                      request.viewbox.v =
                          [left |-> centre.longitude.v * 100 - 2 * radius,
                           top |-> centre.latitude.v * 100 + 2 * radius,
                           right |-> centre.longitude.v * 100 + 2 * radius,
                           bottom |-> centre.latitude.v * 100 - 2 * radius]

\* a search has completed with a non-empty candidate list that is still
\* displayed
Completed ==
    /\ pc = "idle"
    /\ searchResult.status = "returned"
    /\ searchResult.value.t = "array"
    /\ Len(searchResult.value.v) > 0
    /\ locations # << >>

Count(seq, x) == Cardinality({ i \in 1..Len(seq) : seq[i] = x })

NonDecreasing(position, shown) ==
    \A i \in 1..(Len(shown) - 1) :
        DistanceFrom(position, shown[i])
            <= DistanceFrom(position, shown[i + 1])

\* shown holds candidates of full, and none left out is nearer than one
\* shown
NearestOf(position, shown, full) ==
    /\ \A p \in Places : Count(shown, p) <= Count(full, p)
    /\ \A p \in Places :
          Count(shown, p) < Count(full, p) =>
              \A i \in 1..Len(shown) :
                  DistanceFrom(position, shown[i])
                      <= DistanceFrom(position, p)
    /\ Len(shown) \in { Min(Len(full), 5), Min(Len(full), 10) }

\* C9: when a search completes with a known position and a non-empty
\* result list, the displayed list is in non-decreasing distance from the
\* position and holds the nearest candidates of the full list (sorted
\* first, truncated afterwards); without a position it is a prefix of the
\* provider's list, in the provider's order.
C9_Ranked ==
    Completed =>
        IF IsTruthy(userPosition)
        THEN /\ NonDecreasing(userPosition.v, locations)
             /\ NearestOf(userPosition.v, locations, searchResult.value.v)
        ELSE locations = SubSeq(searchResult.value.v, 1, Len(locations))

C9_Witness ==
    /\ Completed
    /\ IsTruthy(userPosition)
    /\ Len(searchResult.value.v) > Len(locations)
    /\ locations # SubSeq(searchResult.value.v, 1, Len(locations))
    /\ \E i \in 1..Len(locations) : locations[i] # locations[1]

\* C10: the displayed list is capped at 5 entries by default and at 10
\* once expansion was requested: after 'Show more results' on a 5-entry
\* list, a re-run search returning n candidates displays min(n, 10).
C10_PageSize ==
    Completed =>
        Len(locations) = Min(Len(searchResult.value.v),
                             IF startedBy = "showmore" THEN 10 ELSE 5)

(***************************************************************************)
(* Properties of the App state across searches.                            *)
(***************************************************************************)
\* the last handleSearch invocation has completed, no search is in flight
\* and clearSearch has not run since it started
SearchCompleted ==
    /\ pc = "idle"
    /\ startedBy # "none"
    /\ searchQuery # << >>

\* searchLocations gave the completed invocation a non-empty list
GotResults ==
    /\ searchResult.status = "returned"
    /\ searchResult.value.t = "array"
    /\ Len(searchResult.value.v) > 0

\* C11: a new search replaces any prior result set: once a handleSearch
\* invocation has completed (with results, with zero results or with a
\* failure) and no other search is in flight, the displayed locations are
\* that invocation's output and nothing of an earlier search: a page of
\* its candidates when it got some, nothing otherwise.
C11_Replaces ==
    SearchCompleted =>
        IF GotResults
        THEN /\ Len(locations) \in
                    { Min(Len(searchResult.value.v), DefaultPage),
                      Min(Len(searchResult.value.v), ExpandedPage) }
             /\ \A i \in 1..Len(locations) :
                    Count(locations, locations[i])
                        <= Count(searchResult.value.v, locations[i])
        ELSE locations = << >>

\* C13: for a query that implies 'near me'/'nearby', a failed geolocation
\* request (permission denied, timeout, position unavailable) does not end
\* the invocation: handleSearch goes on to call searchLocations (whose
\* first step is the model call) without a position, so an invocation for
\* such a query never completes before searchLocations was called.
C13_ProceedsWithoutPosition ==
    (pc = "idle" /\ startedBy # "none" /\ hasLocationQuery(query)) =>
        analysis.kind # "none"

\* the registry's answer lists an entry whose value is the tag's value
Listed(tag, answer) ==
    /\ answer.kind = "data"
    /\ \E e \in answer.values : JStr(e) = tag.value

\* C15: validateOsmTag returns true exactly when the registry's response
\* for the key lists an entry whose value equals the value, and false in
\* every other case: a pair the registry does not list, a network or parse
\* error, a response with no value list.
C15_Verdict ==
    \A call \in validated :
        call.verdict = IF Listed(call.tag, call.answer) THEN "true"
                       ELSE "false"

(***************************************************************************)
(* The OpenAI-backed resolver: parseSearchQuery of openai.ts.  An object   *)
(* is a record of the keys it has; a key it lacks is not in its DOMAIN.    *)
(***************************************************************************)
EmptyObject == [k \in {} |-> JUndef]

\* { ...a, ...b }
Spread(a, b) ==
    [k \in DOMAIN a \cup DOMAIN b |-> IF k \in DOMAIN b THEN b[k] ELSE a[k]]

\* the keys of o that a zod object schema names (the others are stripped)
Strip(o, keys) == [k \in DOMAIN o \cap keys |-> o[k]]

ContextTypes == {"restaurant", "hotel", "cafe", "park", "landmark",
                 "store", "other"}

\* z.string().optional(), z.number().optional()
OptionalOf(x, type) == x.t \in {"undefined", type}

\* location.coordinates of the schema of openai.ts
OpenAICoordinatesOK(c) ==
    \/ c.t = "undefined"
    \/ /\ c.t = "object"
       /\ OptionalOf(Field(c.v, "latitude"), "number")
       /\ OptionalOf(Field(c.v, "longitude"), "number")

OpenAILocationOK(l) ==
    \/ l.t = "undefined"
    \/ /\ l.t = "object"
       /\ OptionalOf(Field(l.v, "area"), "string")
       /\ OpenAICoordinatesOK(Field(l.v, "coordinates"))

\* context: its type is one of the enum's values when present (replies
\* carry no filters)
OpenAIContextOK(c) ==
    \/ c.t = "undefined"
    \/ /\ c.t = "object"
       /\ LET type == Field(c.v, "type")
          IN  \/ type.t = "undefined"
              \/ type.t = "string" /\ type.v \in ContextTypes

OpenAISchemaAccepts(v) ==
    /\ v.t = "object"
    /\ Field(v.v, "searchTerm").t = "string"
    /\ OpenAILocationOK(Field(v.v, "location"))
    /\ OpenAIContextOK(Field(v.v, "context"))

OpenAIStripLocation(l) ==
    LET kept == Strip(l.v, {"area", "coordinates"})
    IN  JObj(IF "coordinates" \in DOMAIN kept
             THEN [kept EXCEPT !.coordinates =
                      JObj(Strip(kept.coordinates.v,
                                 {"latitude", "longitude"}))]
             ELSE kept)

\* ParsedQuerySchema.safeParse of openai.ts
OpenAISafeParse(v) ==
    IF ~OpenAISchemaAccepts(v) THEN [success |-> FALSE]
    ELSE LET kept == Strip(v.v, {"searchTerm", "location", "context"})
         IN  [success |-> TRUE,
              data |-> IF "location" \in DOMAIN kept
                       THEN [kept EXCEPT !.location =
                                OpenAIStripLocation(kept.location)]
                       ELSE kept]

\* ...(userLocation && { coordinates: userLocation })
CoordinatesIfSupplied(userLocation) ==
    IF IsTruthy(userLocation) THEN [coordinates |-> userLocation]
    ELSE EmptyObject

\* MinimalIntent without the supplied position
MinimalIntentNoLocation(rawQuery, userLocation) ==
    [searchTerm |-> JStr(rawQuery)]

\* { searchTerm: query,
\*   ...(userLocation && { location: { coordinates: userLocation } }) }
MinimalIntent(rawQuery, userLocation) ==
    Spread([searchTerm |-> JStr(rawQuery)],
           IF IsTruthy(userLocation)
           THEN [location |-> JObj([coordinates |-> userLocation])]
           ELSE EmptyObject)

\* { ...validation.data,
\*   location: { ...validation.data.location,
\*               ...(userLocation && { coordinates: userLocation }) } }
EnrichedIntent(data, userLocation) ==
    Spread(data,
           [location |->
               JObj(Spread(IF "location" \in DOMAIN data
                           THEN data.location.v ELSE EmptyObject,
                           CoordinatesIfSupplied(userLocation)))])

\* parseSearchQuery of openai.ts once the completion call has settled
OpenAIParseSearchQuery(rawQuery, userLocation, completion) ==
    IF completion.kind \in {"throws", "nochoices", "nocontent", "text"}
    THEN [status |-> "returned",
          value |-> MinimalIntent(rawQuery, userLocation)]
    ELSE LET validation == OpenAISafeParse(completion.value)
         IN  IF ~validation.success
             THEN [status |-> "returned",
                   value |-> MinimalIntent(rawQuery, userLocation)]
             ELSE [status |-> "returned",
                   value |-> EnrichedIntent(validation.data, userLocation)]

\* the userLocation argument: omitted or a position
OpenAIUserLocations ==
    { JUndef } \cup
    { JObj([latitude |-> JNum(p.latitude), longitude |-> JNum(p.longitude)]) :
        p \in Positions }

\* a key of a reply: absent when the value is undefined
Key(k, v) == IF v.t = "undefined" THEN EmptyObject ELSE [x \in {k} |-> v]

OpenAISearchTerms == { JUndef, JStr(<<"coffee">>), JNum(1) }

OpenAILocationReplies ==
    { JUndef, JNull,
      JObj([area |-> JStr("paris")]),
      JObj([area |-> JNum(1)]),
      JObj([area |-> JStr("paris"), type |-> JStr("current"),
            coordinates |-> JObj([latitude |-> JNum(30),
                                  longitude |-> JNum(30)])]),
      JObj([coordinates |-> JObj([latitude |-> JStr("north")])]) }

OpenAIContextReplies ==
    { JUndef, JObj([type |-> JStr("cafe")]), JObj([type |-> JStr("bar")]) }

\* what JSON.parse makes of the completion's content when it is JSON
OpenAIReplies ==
    { JNull, JNum(1), JArr(<< >>) } \cup
    { JObj(Spread(Key("searchTerm", st),
                  Spread(Key("location", l), Key("context", c)))) :
        st \in OpenAISearchTerms, l \in OpenAILocationReplies,
        c \in OpenAIContextReplies }

\* openai.chat.completions.create: it throws, answers without choices,
\* with a null or empty content, with content that is not JSON, or with
\* JSON content
OpenAICompletions ==
    { [kind |-> "throws"], [kind |-> "nochoices"], [kind |-> "nocontent"],
      [kind |-> "text"] } \cup
    { [kind |-> "json", value |-> v] : v \in OpenAIReplies }

\* parseSearchQuery(query, userLocation) up to its await
OpenAICall(rawQuery, userLocation) ==
    /\ openaiCall.status # "awaiting"
    /\ openaiCall' = [status |-> "awaiting", query |-> rawQuery,
                      userLocation |-> userLocation]
    /\ UNCHANGED << appVars, invVars, pipeVars, calls, latest >>

\* the completion call settles and parseSearchQuery runs to its end
OpenAICompletion(completion) ==
    /\ openaiCall.status = "awaiting"
    /\ LET settled == OpenAIParseSearchQuery(openaiCall.query,
                           openaiCall.userLocation, completion)
       IN  openaiCall' = [status |-> settled.status,
                          query |-> openaiCall.query,
                          userLocation |-> openaiCall.userLocation,
                          completion |-> completion,
                          value |-> settled.value]
    /\ UNCHANGED << appVars, invVars, pipeVars, calls, latest >>

NextOpenAI ==
    \/ \E q \in Queries, l \in OpenAIUserLocations : OpenAICall(q, l)
    \/ \E c \in OpenAICompletions : OpenAICompletion(c)

SpecOpenAI == Init /\ [][NextOpenAI]_vars

\* the call has settled
OpenAISettled == openaiCall.status \notin {"idle", "awaiting"}

\* a failure outcome of the completion call: it threw, gave no content,
\* content that is not JSON, or JSON the schema rejects
OpenAIFailure(completion) ==
    \/ completion.kind # "json"
    \/ ~OpenAISchemaAccepts(completion.value)

\* C16: parseSearchQuery of openai.ts returns without throwing for every
\* outcome of the completion call, and on every failure outcome the
\* returned intent is built from the inputs only: searchTerm is the raw
\* query, location.coordinates is the supplied position when one was
\* supplied, and there is no location field when none was supplied.
C16_MinimalOnFailure ==
    OpenAISettled =>
        /\ openaiCall.status = "returned"
        /\ OpenAIFailure(openaiCall.completion) =>
               /\ openaiCall.value.searchTerm = JStr(openaiCall.query)
               /\ IF openaiCall.userLocation.t = "object"
                  THEN /\ DOMAIN openaiCall.value = {"searchTerm", "location"}
                       /\ openaiCall.value.location =
                              JObj([coordinates |->
                                       openaiCall.userLocation])
                  ELSE DOMAIN openaiCall.value = {"searchTerm"}

\* a schema-invalid object reply was answered with the minimal intent
\* carrying the supplied position
C16_Witness ==
    /\ OpenAISettled
    /\ openaiCall.completion.kind = "json"
    /\ openaiCall.completion.value.t = "object"
    /\ ~OpenAISchemaAccepts(openaiCall.completion.value)
    /\ openaiCall.userLocation.t = "object"
    /\ openaiCall.value.location.v.coordinates = openaiCall.userLocation

(***************************************************************************)
(* Requests that are never answered.  The first getCurrentPosition is      *)
(* given timeout: 5000, so its error callback is its answer at the latest  *)
(* after five seconds; the second getCurrentPosition has no options, and   *)
(* the fetch calls (tag registry, geocoder) carry no signal.               *)
(***************************************************************************)
\* the awaits of an invocation whose request has no timeout
Unbounded == {"geo2", "taginfo", "tier1", "tier2", "tier3"}

\* the pending request is never answered: the invocation stays suspended
NeverAnswered ==
    /\ pc \in Unbounded
    /\ pc' = "hung"
    /\ UNCHANGED << appVars, query, userPosition, closureExpanded,
                    startedBy, pipeVars, sideVars >>

\* an answer arrives for the pending request
Answers ==
    \/ \E o \in GeoOutcomes : GeoResult1(o)
    \/ \E o \in GeoOutcomes : GeoResult2(o)
    \/ \E r \in FewReplies : ChatResult(r)
    \/ \E r \in MappingReplies : MapChatResult(r)
    \/ \E a \in RegistryAnswers : TagInfoResult(a)
    \/ \E a \in GeocoderAnswers(FullLimit, MaxShort) : Tier1Response(a)
    \/ \E a \in GeocoderAnswers(PlainLimit, MaxShort) : Tier2Response(a)
    \/ \E a \in GeocoderAnswers(LastResortLimit, MaxShort) :
          Tier3Response(a)

NextLive ==
    \/ NextWith(FewQueries, FewReplies, MaxShort)
    \/ NeverAnswered

\* a pending request is eventually answered unless it is never answered;
\* the timer of the first getCurrentPosition always answers
SpecLive == Init /\ [][NextLive]_vars /\ WF_vars(Answers)

\* C14: every handleSearch invocation eventually completes and sets
\* isLoading back to false, even when a geolocation request or a network
\* call is never answered.
C14_Terminates == isLoading ~> ~isLoading

(***************************************************************************)
(* Overlapping handleSearch invocations.  Every invocation has a slot of   *)
(* calls with its own query, userPosition and captured expandedResults;    *)
(* the App state is shared.  searchLocations touches no App state and is   *)
(* one await here.                                                         *)
(***************************************************************************)
InFlight(c) == calls[c].pc # "free"

NoneInFlight == \A c \in 1..MaxCalls : ~InFlight(c)

\* what an invocation has set by the time it completed
Output(list, message) ==
    [status |-> "done", locations |-> list, error |-> message]

\* handleSearch up to its first await, as a new invocation
StartCall(q, capturedExpanded) ==
    /\ \E c \in 1..MaxCalls : ~InFlight(c)
    /\ LET c == CHOOSE d \in 1..MaxCalls :
                    ~InFlight(d) /\ \A e \in 1..(d - 1) : InFlight(e)
       IN  /\ calls' = [calls EXCEPT ![c] =
                  [pc |-> IF hasLocationQuery(q) THEN "geo1" ELSE "search",
                   query |-> q, userPosition |-> JNull,
                   closureExpanded |-> capturedExpanded]]
           /\ latest' = [slot |-> c, output |-> [status |-> "none"]]
    /\ searchQuery' = q
    /\ isLoading' = TRUE
    /\ error' = NoError
    /\ selectedLocation' = JNull
    /\ expandedResults' = FALSE
    /\ searchContext' = JNull
    /\ UNCHANGED << locations, invVars, pipeVars, openaiCall >>

\* the finally block of invocation c, which has set output
FinishCall(c, output) ==
    /\ isLoading' = FALSE
    /\ calls' = [calls EXCEPT ![c] = FreeCall]
    /\ latest' = IF latest.slot = c
                 THEN [latest EXCEPT !.output = output]
                 ELSE latest
    /\ UNCHANGED << selectedLocation, expandedResults, searchContext,
                    searchQuery, invVars, pipeVars, openaiCall >>

\* the outer catch and finally of invocation c
FailCall(c) ==
    /\ error' = FailedMsg
    /\ FinishCall(c, Output(JUndef, FailedMsg))
    /\ UNCHANGED locations

\* SearchBar.handleSubmit: the submit button is disabled while isLoading
OverlapSubmit(q) ==
    /\ ~isLoading
    /\ Len(q) > 0
    /\ StartCall(q, expandedResults)

\* SearchBar recognition.onresult: not guarded by isLoading, and the
\* transcript is passed on whatever it is
OverlapVoiceResult(q) ==
    /\ Len(q) >= 0
    /\ StartCall(q, expandedResults)

\* "Show more results", rendered whenever the list has 5 entries
OverlapShowMore ==
    /\ Len(locations) = 5
    /\ ~expandedResults
    /\ StartCall(searchQuery, expandedResults)

\* a click on marker or list entry index: setSelectedLocation(index)
SelectLocation(index) ==
    /\ index \in 0..(Len(locations) - 1)
    /\ selectedLocation' = JNum(index)
    /\ UNCHANGED << locations, isLoading, error, expandedResults,
                    searchContext, searchQuery, invVars, pipeVars, sideVars >>

\* first getCurrentPosition (timeout 5000) of invocation c answers
OverlapGeoResult1(c, o) ==
    /\ calls[c].pc = "geo1"
    /\ IF o.kind = "position"
       THEN /\ calls' = [calls EXCEPT ![c].userPosition = JObj(o.coords),
                                      ![c].pc = "geo2"]
            /\ UNCHANGED << appVars, invVars, pipeVars, latest, openaiCall >>
       ELSE FailCall(c)

\* second getCurrentPosition of invocation c answers
OverlapGeoResult2(c, o) ==
    /\ calls[c].pc = "geo2"
    /\ IF o.kind = "position"
       THEN /\ calls' = [calls EXCEPT ![c].userPosition = JObj(o.coords),
                                      ![c].pc = "search"]
            /\ UNCHANGED << appVars, invVars, pipeVars, latest, openaiCall >>
       ELSE FailCall(c)

\* searchLocations of invocation c settles; handleSearch runs to its end
SearchLocationsSettled(c, outcome) ==
    /\ calls[c].pc = "search"
    /\ IF outcome.kind = "thrown" THEN FailCall(c)
       ELSE IF outcome.body.t # "array" THEN FailCall(c)
       ELSE IF Len(outcome.body.v) = 0
       THEN /\ error' = NoLocationsMsg
            /\ FinishCall(c, Output(JUndef, NoLocationsMsg))
            /\ UNCHANGED locations
       ELSE LET shown == Slice(Rank(calls[c].userPosition, outcome.body.v),
                               calls[c].closureExpanded)
            IN  /\ locations' = shown
                /\ FinishCall(c, Output(JArr(shown), NoError))
                /\ UNCHANGED error

\* candidate lists of searchLocations: none, few, a page, more than a page
OverlapLists ==
    { [i \in 1..n |-> p] : n \in {0, 1, 2, DefaultPage, MaxResults},
                            p \in Places }

\* how searchLocations settles: it throws (the last-resort request failed),
\* returns the JSON of an error body, or returns a list
SearchOutcomes ==
    { [kind |-> "thrown"], [kind |-> "returned", body |-> [t |-> "errobj"]] }
    \cup { [kind |-> "returned", body |-> JArr(l)] : l \in OverlapLists }

NextOverlap ==
    \/ \E q \in FewQueries : OverlapSubmit(q)
    \/ \E q \in FewQueries : OverlapVoiceResult(q)
    \/ OverlapShowMore
    \/ clearSearch
    \/ \E i \in 0..(ExpandedPage - 1) : SelectLocation(i)
    \/ \E c \in 1..MaxCalls, o \in GeoOutcomes : OverlapGeoResult1(c, o)
    \/ \E c \in 1..MaxCalls, o \in GeoOutcomes : OverlapGeoResult2(c, o)
    \/ \E c \in 1..MaxCalls, o \in SearchOutcomes :
          SearchLocationsSettled(c, o)

SpecOverlap == Init /\ [][NextOverlap]_vars

\* C12: superseding of stale results: once overlapping invocations have
\* all completed (and clearSearch has not run since the last one started),
\* the displayed error message is the one the invocation started last has
\* set, and so is the displayed list when that invocation has set one; the
\* output of an earlier invocation never overwrites them.
C12_LatestWins ==
    (NoneInFlight /\ latest.slot # 0 /\ searchQuery # << >>) =>
        /\ error = latest.output.error
        /\ latest.output.locations.t = "array" =>
               locations = latest.output.locations.v

\* C17: selectedLocation is null or an index into the displayed list
C17_SelectionInRange ==
    \/ selectedLocation = JNull
    \/ /\ selectedLocation.t = "number"
       /\ selectedLocation.v \in 0..(Len(locations) - 1)

\* C18: isLoading is true if and only if at least one handleSearch
\* invocation is still in flight
C18_LoadingIffInFlight ==
    isLoading <=> \E c \in 1..MaxCalls : InFlight(c)

====
